---- MODULE Spec2Model ----
(***************************************************************************)
(* A model of riesgosutils/s3.py: the S3ConnectionMR wrapper (client       *)
(* factory, scan, read_from_s3, df_to_s3, s3_find_csv, s3_upload,          *)
(* clear_cache) and the DynamoDBConnection wrapper (client factory,        *)
(* connect_table and the six item operations).                             *)
(*                                                                         *)
(* Python strings are sequences of one-character strings, so that          *)
(* endswith / startswith / `in` / split / splitext / sorted are computed   *)
(* on characters as Python computes them.  Python's None, where a string   *)
(* is expected, is the one-element sequence NoneStr.                       *)
(***************************************************************************)
EXTENDS Integers, Sequences, FiniteSets, TLC

VARIABLES
    bucket,     \* the S3 bucket: a set of objects [Key, Body], one per Key
    tmpdir,     \* the files of tempfile.gettempdir(): a set of [name, owner, body]
    credFile,   \* what the credential file path holds on the local disk
    ambientOk,  \* whether boto3's default credential resolution builds a client
    s3_client,  \* S3ConnectionMR.s3_client
    dynamodb,   \* DynamoDBConnection.dynamodb
    table,      \* DynamoDBConnection.table
    store,      \* the DynamoDB service: table name -> key -> item
    lastWrite,  \* per table and key, the last acknowledged put_item / delete_item / update_item call
    ret         \* the last call: its operation, arguments, outcome and service requests

vars == <<bucket, tmpdir, credFile, ambientOk, s3_client, dynamodb, table, store, lastWrite, ret>>

-----------------------------------------------------------------------------
(* Python values and strings *)

NoneStr == <<"<None>">>

NoneVal == [t |-> "None"]

NoCall == [op |-> "none"]

\* ord(c) for the characters the model uses
Ord(c) ==
    CASE c = " " -> 32
      [] c = "." -> 46
      [] c = "/" -> 47
      [] c = "2" -> 50
      [] c = "3" -> 51
      [] c = "4" -> 52
      [] c = "C" -> 67
      [] c = "S" -> 83
      [] c = "V" -> 86
      [] c = "_" -> 95
      [] c = "a" -> 97
      [] c = "b" -> 98
      [] c = "c" -> 99
      [] c = "d" -> 100
      [] c = "e" -> 101
      [] c = "j" -> 106
      [] c = "p" -> 112
      [] c = "q" -> 113
      [] c = "r" -> 114
      [] c = "s" -> 115
      [] c = "t" -> 116
      [] c = "u" -> 117
      [] c = "v" -> 118
      [] c = "x" -> 120
      [] OTHER -> 122

\* str.lower() on one character
LowerChar(c) ==
    CASE c = "C" -> "c"
      [] c = "S" -> "s"
      [] c = "V" -> "v"
      [] OTHER -> c

Lower(s) == [i \in 1..Len(s) |-> LowerChar(s[i])]

StartsWith(s, p) == Len(p) <= Len(s) /\ SubSeq(s, 1, Len(p)) = p

EndsWith(s, p) == Len(p) <= Len(s) /\ SubSeq(s, Len(s) - Len(p) + 1, Len(s)) = p

\* Python's `p in s` on strings: p occurs in s as a contiguous substring
Contains(s, p) == \E i \in 0..(Len(s) - Len(p)) : SubSeq(s, i + 1, i + Len(p)) = p

\* Python's s < t on strings: lexicographic on code points
RECURSIVE StrLess(_, _)
StrLess(s, t) ==
    IF t = <<>> THEN FALSE
    ELSE IF s = <<>> THEN TRUE
    ELSE IF Ord(Head(s)) # Ord(Head(t)) THEN Ord(Head(s)) < Ord(Head(t))
    ELSE StrLess(Tail(s), Tail(t))

StrLeq(s, t) == s = t \/ StrLess(s, t)

\* sorted(list): ascending, duplicates kept
RECURSIVE InsertSorted(_, _)
InsertSorted(x, s) ==
    IF s = <<>> THEN <<x>>
    ELSE IF StrLeq(x, Head(s)) THEN <<x>> \o s
    ELSE <<Head(s)>> \o InsertSorted(x, Tail(s))

RECURSIVE SortedList(_)
SortedList(s) == IF s = <<>> THEN <<>> ELSE InsertSorted(Head(s), SortedList(Tail(s)))

\* sorted(list(set)): ascending, one entry per member
RECURSIVE SortedSet(_)
SortedSet(S) ==
    IF S = {} THEN <<>>
    ELSE LET m == CHOOSE x \in S : \A y \in S : StrLeq(x, y)
         IN  <<m>> \o SortedSet(S \ {m})

\* the index of the last occurrence of character c in s, 0 when there is none
LastIndexOf(s, c) ==
    IF \E i \in 1..Len(s) : s[i] = c
    THEN CHOOSE i \in 1..Len(s) : s[i] = c /\ \A j \in (i + 1)..Len(s) : s[j] # c
    ELSE 0

\* the index of the first occurrence of character c in s, 0 when there is none
FirstIndexOf(s, c) ==
    IF \E i \in 1..Len(s) : s[i] = c
    THEN CHOOSE i \in 1..Len(s) : s[i] = c /\ \A j \in 1..(i - 1) : s[j] # c
    ELSE 0

\* str.rstrip('/')
RECURSIVE RStripSlash(_)
RStripSlash(s) ==
    IF s # <<>> /\ s[Len(s)] = "/" THEN RStripSlash(SubSeq(s, 1, Len(s) - 1)) ELSE s

\* str.replace(" ", "_")
ReplaceSpaces(s) == [i \in 1..Len(s) |-> IF s[i] = " " THEN "_" ELSE s[i]]

SeqToSet(s) == {s[i] : i \in 1..Len(s)}

\* every ordering of the members of a finite set
Orderings(S) ==
    {f \in [1..Cardinality(S) -> S] : \A i, j \in 1..Cardinality(S) : i # j => f[i] # f[j]}

Min(a, b) == IF a <= b THEN a ELSE b

-----------------------------------------------------------------------------
(* The S3 service behind s3_client, and the handle *)

PageSize == 2

\* the client boto3.client("s3") returns
S3Handle == [t |-> "client", service |-> "s3", credentials |-> "ambient"]

\* the body s3_upload sends: the bytes of the caller's local file
FileBody == [fmt |-> "raw", rows |-> 0]

BucketKeys(bkt) == {o.Key : o \in bkt}

\* the service's PutObject: the object stored under Key is replaced
S3PutObject(bkt, key, body) == {o \in bkt : o.Key # key} \cup {[Key |-> key, Body |-> body]}

\* ListObjectsV2(Prefix, Delimiter): the keys under Prefix, those with the
\* delimiter after the prefix rolled up into one common prefix each
ListEntries(bkt, prefix, delimiter) ==
    LET matching == {k \in BucketKeys(bkt) : StartsWith(k, prefix)}
        Rest(k) == SubSeq(k, Len(prefix) + 1, Len(k))
        Rolled(k) == delimiter # <<>> /\ FirstIndexOf(Rest(k), delimiter[1]) # 0
    IN  {[kind |-> "Contents", Key |-> k] : k \in {m \in matching : ~Rolled(m)}}
        \cup {[kind |-> "CommonPrefixes",
               Key |-> SubSeq(k, 1, Len(prefix) + FirstIndexOf(Rest(k), delimiter[1]))]
              : k \in {m \in matching : Rolled(m)}}

\* one page of the paginator: what page.get('CommonPrefixes', []) and
\* page.get('Contents', []) yield
PageOf(entries) ==
    [CommonPrefixes |-> SelectSeq(entries, LAMBDA e : e.kind = "CommonPrefixes"),
     Contents |-> SelectSeq(entries, LAMBDA e : e.kind = "Contents")]

\* paginator.paginate(...): the listing cut into pages of PageSize entries;
\* an empty listing is one page without CommonPrefixes and Contents
RECURSIVE Paginate(_)
Paginate(listing) ==
    IF Len(listing) <= PageSize THEN <<PageOf(listing)>>
    ELSE <<PageOf(SubSeq(listing, 1, PageSize))>>
         \o Paginate(SubSeq(listing, PageSize + 1, Len(listing)))

-----------------------------------------------------------------------------
(* S3ConnectionMR.s3_upload *)

S3Upload(file_ok, key, fail) ==
    LET raised == s3_client = NoneVal \/ ~file_ok \/ fail
    IN  /\ bucket' = IF raised THEN bucket ELSE S3PutObject(bucket, key, FileBody)
        /\ ret' = [op |-> "s3_upload", args |-> [key |-> key], outcome |-> "return",
                   value |-> NoneVal, logged |-> raised]
        /\ UNCHANGED <<tmpdir, credFile, ambientOk, s3_client, dynamodb, table, store, lastWrite>>

-----------------------------------------------------------------------------
(* S3ConnectionMR.scan *)

\* 'Prefix': path.rstrip('/') + '/' if path and not path.endswith('/') else path
ScanPrefix(path) ==
    IF path # NoneStr /\ path # <<>> /\ ~EndsWith(path, <<"/">>)
    THEN RStripSlash(path) \o <<"/">>
    ELSE path

\* 'Delimiter': '' if recursive else '/'
ScanDelimiter(recursive) == IF recursive THEN <<>> ELSE <<"/">>

\* if key.endswith('/'): continue
ScanKeepsKey(key) == ~EndsWith(key, <<"/">>)

\* the body of `for page in paginator.paginate(...)`
ScanPage(page, recursive, result) ==
    [folders |-> IF ~recursive
                 THEN result.folders \cup {cp.Key : cp \in SeqToSet(page.CommonPrefixes)}
                 ELSE result.folders,
     files |-> result.files
               \o [i \in 1..Len(SelectSeq(page.Contents, LAMBDA obj : ScanKeepsKey(obj.Key)))
                   |-> SelectSeq(page.Contents, LAMBDA obj : ScanKeepsKey(obj.Key))[i].Key]]

RECURSIVE ScanPages(_, _, _)
ScanPages(pages, recursive, result) ==
    IF pages = <<>> THEN result
    ELSE ScanPages(Tail(pages), recursive, ScanPage(Head(pages), recursive, result))

\* result['folders'] = sorted(list(result['folders']))
ScanSortFolders(folders) == SortedSet(folders)

\* result['files'] = sorted(result['files'])
ScanFilesUnsorted(files) == files

ScanSortFiles(files) == SortedList(files)

ScanResult(pages, recursive) ==
    LET result == ScanPages(pages, recursive, [folders |-> {}, files |-> <<>>])
    IN  [folders |-> ScanSortFolders(result.folders), files |-> ScanSortFiles(result.files)]

\* The listing order is the service's; the code assumes none (it sorts), so
\* every order of the entries is a listing the paginator may deliver.
Scan(path, recursive, fail) ==
    LET raised == s3_client = NoneVal \/ path = NoneStr \/ fail
        entries == IF raised THEN {}
                   ELSE ListEntries(bucket, ScanPrefix(path), ScanDelimiter(recursive))
    IN  /\ \E listing \in Orderings(entries) :
              ret' = [op |-> "scan", args |-> [path |-> path, recursive |-> recursive],
                      outcome |-> "return",
                      value |-> IF raised THEN [folders |-> <<>>, files |-> <<>>]
                                ELSE ScanResult(Paginate(listing), recursive),
                      pages |-> IF raised THEN 0 ELSE Len(Paginate(listing)),
                      logged |-> raised]
        /\ UNCHANGED <<bucket, tmpdir, credFile, ambientOk, s3_client, dynamodb, table, store, lastWrite>>

\* keys and paths of the listing runs
ScanKeys ==
    {<<"a", "/">>, <<"a", "/", "b">>, <<"a", "/", "c", "/">>, <<"a", "/", "c", "/", "d">>, <<"b">>}

ScanPaths == {<<>>, <<"a">>, <<"a", "/">>, <<"a", "/", "c">>, <<"x">>, NoneStr}

\* everything but the bucket and the client, before any call
InitRest ==
    /\ tmpdir = {}
    /\ credFile = [state |-> "missing"]
    /\ ambientOk = TRUE
    /\ dynamodb = NoneVal
    /\ table = NoneVal
    /\ store = <<>>
    /\ lastWrite = <<>>
    /\ ret = NoCall

InitIdle == bucket = {} /\ InitRest

InitScan == InitIdle /\ s3_client \in {S3Handle, NoneVal}

NextScan ==
    \/ \E key \in ScanKeys, file_ok, fail \in BOOLEAN : S3Upload(file_ok, key, fail)
    \/ \E path \in ScanPaths, recursive, fail \in BOOLEAN : Scan(path, recursive, fail)

SpecScan == InitScan /\ [][NextScan]_vars

\* C4: scan(path, recursive=False) returns no file key ending in '/', and for
\* either value of recursive the folders are strictly ascending (sorted, no
\* duplicates) and the files ascending, whatever the bucket holds and however
\* the listing is ordered and cut into pages.
IsAscending(s) == \A i \in 1..(Len(s) - 1) : StrLeq(s[i], s[i + 1])

IsStrictlyAscending(s) == \A i \in 1..(Len(s) - 1) : StrLess(s[i], s[i + 1])

-----------------------------------------------------------------------------
(* S3ConnectionMR.s3_find_csv *)

MaxKeys == 3

\* list_objects_v2(Bucket=...)["Contents"]: the first page of the listing, at
\* most MaxKeys objects (the call passes no continuation token)
FirstPage(listing) == SubSeq(listing, 1, Min(Len(listing), MaxKeys))

\* path in obj["Key"] and suffix in obj["Key"]
FindMatches(key, path, suffix) == Contains(key, path) /\ Contains(key, suffix)

FindResult(objects, path, suffix) ==
    [i \in 1..Len(SelectSeq(objects, LAMBDA obj : FindMatches(obj.Key, path, suffix)))
     |-> SelectSeq(objects, LAMBDA obj : FindMatches(obj.Key, path, suffix))[i].Key]

\* An empty bucket's response has no "Contents" (KeyError); `None in key`
\* is a TypeError, met at the first object.
S3FindCsv(path, suffix, fail) ==
    LET exc == IF s3_client = NoneVal THEN "AttributeError"
               ELSE IF fail THEN "ClientError"
               ELSE IF bucket = {} THEN "KeyError"
               ELSE IF path = NoneStr THEN "TypeError"
               ELSE ""
    IN  /\ \E listing \in Orderings(ListEntries(bucket, <<>>, <<>>)) :
              ret' = [op |-> "s3_find_csv", args |-> [path |-> path, suffix |-> suffix],
                      outcome |-> IF exc = "" THEN "return" ELSE "raise",
                      exc |-> exc,
                      listing |-> IF exc = "" THEN FirstPage(listing) ELSE <<>>,
                      value |-> IF exc = "" THEN FindResult(FirstPage(listing), path, suffix)
                                ELSE <<>>]
        /\ UNCHANGED <<bucket, tmpdir, credFile, ambientOk, s3_client, dynamodb, table, store, lastWrite>>

FindKeys ==
    {<<"2", "4", "/", "j", ".", "c", "s", "v">>,
     <<"2", "4", "/", "j", ".", "p", "q">>,
     <<"2", "3", "/", "j", ".", "c", "s", "v">>,
     <<"2", "4", "/", "c", "s", "v", ".", "p", "q">>}

FindPaths == {<<"2", "4", "/">>, <<"2", "3", "/">>, NoneStr}

FindSuffixes == {<<"c", "s", "v">>, <<"p", "q">>}

InitFind == InitIdle /\ s3_client \in {S3Handle, NoneVal}

NextFind ==
    \/ \E key \in FindKeys, file_ok, fail \in BOOLEAN : S3Upload(file_ok, key, fail)
    \/ \E path \in FindPaths, suffix \in FindSuffixes, fail \in BOOLEAN : S3FindCsv(path, suffix, fail)

SpecFind == InitFind /\ [][NextFind]_vars

\* C7: s3_find_csv(path, suffix) returns exactly the keys of the listing that
\* contain path and END with suffix; a key holding the suffix text elsewhere
\* is not returned.
C7_FindReturnsKeysEndingWithSuffix ==
    (ret.op = "s3_find_csv" /\ ret.outcome = "return") =>
        SeqToSet(ret.value)
            = {k \in {ret.listing[i].Key : i \in 1..Len(ret.listing)} :
                  Contains(k, ret.args.path) /\ EndsWith(k, ret.args.suffix)}

-----------------------------------------------------------------------------
(* S3ConnectionMR.df_to_s3 *)

\* os.path.splitext(key)[1]: from the last '.' of the last path component,
\* unless only dots precede it there
SplitExt(p) ==
    LET sep == LastIndexOf(p, "/")
        dot == LastIndexOf(p, ".")
    IN  IF dot > sep /\ \E i \in (sep + 1)..(dot - 1) : p[i] # "."
        THEN SubSeq(p, dot, Len(p))
        ELSE <<>>

ExtCsv == <<".", "c", "s", "v">>

ExtParquet == <<".", "p", "a", "r", "q", "u", "e", "t">>

\* df.to_csv(buffer, index=index) / df.to_parquet(buffer, index=index)
Serialize(df, fmt, index) == [fmt |-> fmt, rows |-> df.rows, index |-> index]

\* the requests df_to_s3 sends to the service, in order
DfToS3Requests(df, key, index, ext) ==
    IF s3_client = NoneVal THEN <<>>
    ELSE <<[api |-> "put_object", Key |-> key,
            Body |-> Serialize(df, IF ext = ExtCsv THEN "csv" ELSE "parquet", index)]>>

\* the two raises of ValueError: df or key missing, or an extension that is
\* neither '.csv' nor '.parquet'
DfToS3AcceptsAnyExtension(df, key) == df # NoneVal /\ key # NoneStr

DfToS3Accepts(df, key) ==
    df # NoneVal /\ key # NoneStr /\ Lower(SplitExt(key)) \in {ExtCsv, ExtParquet}

DfToS3(df, key, index, fail) ==
    LET rejected == ~DfToS3Accepts(df, key)
        ext == IF rejected THEN <<>> ELSE Lower(SplitExt(key))
        requests == IF rejected THEN <<>> ELSE DfToS3Requests(df, key, index, ext)
        exc == IF rejected THEN "ValueError"
               ELSE IF s3_client = NoneVal THEN "AttributeError"
               ELSE IF fail THEN "ClientError"
               ELSE ""
    IN  /\ bucket' = IF exc = "" THEN S3PutObject(bucket, requests[1].Key, requests[1].Body)
                     ELSE bucket
        /\ ret' = [op |-> "df_to_s3", args |-> [df |-> df, key |-> key, index |-> index],
                   outcome |-> IF exc = "" THEN "return" ELSE "raise",
                   exc |-> exc, value |-> NoneVal, requests |-> requests,
                   logged_rows |-> IF exc = "" THEN df.rows ELSE 0]
        /\ UNCHANGED <<tmpdir, credFile, ambientOk, s3_client, dynamodb, table, store, lastWrite>>

DataFrames == {[t |-> "DataFrame", rows |-> 1], [t |-> "DataFrame", rows |-> 2]}

WriteKeys ==
    {<<"a", ".", "c", "s", "v">>,
     <<"a", ".", "C", "S", "V">>,
     <<"a", ".", "p", "a", "r", "q", "u", "e", "t">>,
     <<"a", ".", "t", "x", "t">>,
     <<"c", "s", "v">>,
     <<".", "c", "s", "v">>,
     <<"a", ".", "c", "s", "v", "/", "b">>,
     <<"a", ".", "c", "s", "v", ".", "t", "x", "t">>,
     NoneStr}

InitWrite == InitIdle /\ s3_client \in {S3Handle, NoneVal}

NextWrite ==
    \E df \in DataFrames \cup {NoneVal}, key \in WriteKeys, index, fail \in BOOLEAN :
        DfToS3(df, key, index, fail)

SpecWrite == InitWrite /\ [][NextWrite]_vars

\* C6: df_to_s3 with df or key missing, or with a key whose extension
\* (os.path.splitext, case-insensitive) is neither .csv nor .parquet, raises
\* its ValueError having sent no request to the service; with an accepted
\* extension, a bridge that holds a client sends exactly one put_object, of
\* the table serialized in the key's format, and nothing else.
C6_WriteChecksBeforeNetwork ==
    ret.op = "df_to_s3" =>
        LET a == ret.args
            missing == a.df = NoneVal \/ a.key = NoneStr
            ext == IF missing THEN <<>> ELSE Lower(SplitExt(a.key))
        IN  IF missing \/ ext \notin {ExtCsv, ExtParquet}
            THEN ret.outcome = "raise" /\ ret.exc = "ValueError" /\ ret.requests = <<>>
            ELSE /\ ret.exc # "ValueError"
                 /\ s3_client # NoneVal =>
                        ret.requests = <<[api |-> "put_object", Key |-> a.key,
                                          Body |-> [fmt |-> IF ext = ExtCsv THEN "csv" ELSE "parquet",
                                                    rows |-> a.df.rows, index |-> a.index]]>>
                 /\ ret.outcome = "return" => [Key |-> a.key, Body |-> ret.requests[1].Body] \in bucket

\* a rejected key after an accepted one: the bucket holds the earlier object
\* and the rejected call sent nothing
C6_Witness ==
    /\ ret.op = "df_to_s3" /\ ret.exc = "ValueError"
    /\ ret.args.df # NoneVal /\ ret.args.key = <<"a", ".", "t", "x", "t">>
    /\ ret.requests = <<>>
    /\ \E o \in bucket : o.Key = <<"a", ".", "C", "S", "V">> /\ o.Body.fmt = "csv"

-----------------------------------------------------------------------------
(* S3ConnectionMR.read_from_s3 and clear_cache *)

MaxTmpFiles == 2

\* filename.split(".")[-1].lower(): the text after the last '.', the whole
\* name when it has none
FileExtension(filename) ==
    Lower(SubSeq(filename, LastIndexOf(filename, ".") + 1, Len(filename)))

Csv == <<"c", "s", "v">>

Parquet == <<"p", "a", "r", "q", "u", "e", "t">>

\* if file_extension not in ["csv", "parquet"]
ReadSupportsAnything(ext) == TRUE

ReadSupports(ext) == ext \in {Csv, Parquet}

IsSparkSession(engine) == engine.t = "SparkSession"

\* engine.sparkContext.appName.replace(" ", "_")
AppName(engine) == ReplaceSpaces(engine.appName)

\* tempfile.NamedTemporaryFile(delete=False, prefix=f"{app_name}_", suffix=...).name,
\* rnd being the random part the library draws
TempFileName(app_name, rnd, suffix) == app_name \o <<"_">> \o rnd \o suffix

\* df.limit(nrows) under `if nrows:`; pandas' nrows=nrows
SparkRows(rows, nrows) == IF nrows # -1 /\ nrows # 0 THEN Min(rows, nrows) ELSE rows

PandasRows(rows, nrows) == IF nrows # -1 THEN Min(rows, nrows) ELSE rows

\* get_object: what stops the call before the extension is looked at
FetchError(filename, fail) ==
    IF s3_client = NoneVal THEN "AttributeError"
    ELSE IF filename = NoneStr THEN "ParamValidationError"
    ELSE IF fail \/ filename \notin BucketKeys(bucket) THEN "ClientError"
    ELSE ""

\* The outcome of read_from_s3 once get_object has answered: the exception
\* raised ("" for none), the value returned, whether the warning was issued,
\* and the temp file staged (none: {}).  nrows = -1 stands for nrows=None.
ReadOutcome(filename, engine, nrows, persistence, rnd) ==
    LET ext == FileExtension(filename)
        body == (CHOOSE o \in bucket : o.Key = filename).Body
        staged(suffix) == {[name |-> TempFileName(AppName(engine), rnd, suffix),
                            owner |-> engine, body |-> body]}
        distributed == [t |-> "DistributedTable", rows |-> SparkRows(body.rows, nrows),
                        persistence |-> persistence]
    IN  IF ~ReadSupports(ext)
        THEN [exc |-> "", value |-> NoneVal, warned |-> TRUE, staged |-> {}]
        ELSE IF ext = Csv
        THEN IF engine = NoneVal
             THEN [exc |-> "", warned |-> FALSE, staged |-> {},
                   value |-> [t |-> "LocalTable", rows |-> PandasRows(body.rows, nrows)]]
             ELSE IF IsSparkSession(engine)
             THEN [exc |-> "", warned |-> FALSE, staged |-> staged(ExtCsv), value |-> distributed]
             ELSE [exc |-> "ValueError", value |-> NoneVal, warned |-> FALSE, staged |-> {}]
        ELSE IF ext = Parquet
        THEN IF ~IsSparkSession(engine)
             \* engine.sparkContext of None, or of an object that is no session
             THEN [exc |-> "AttributeError", value |-> NoneVal, warned |-> FALSE, staged |-> {}]
             ELSE [exc |-> "", warned |-> FALSE, staged |-> staged(ExtParquet), value |-> distributed]
        ELSE [exc |-> "", value |-> NoneVal, warned |-> FALSE, staged |-> {}]

ReadFromS3(filename, engine, nrows, persistence, rnd, fail) ==
    LET fetch == FetchError(filename, fail)
        out == IF fetch # "" THEN [exc |-> fetch, value |-> NoneVal, warned |-> FALSE, staged |-> {}]
               ELSE ReadOutcome(filename, engine, nrows, persistence, rnd)
    IN  /\ \A f \in out.staged : f.name \notin {g.name : g \in tmpdir}
        /\ Cardinality(tmpdir \cup out.staged) <= MaxTmpFiles
        /\ tmpdir' = tmpdir \cup out.staged
        /\ ret' = [op |-> "read_from_s3",
                   args |-> [filename |-> filename, engine |-> engine, nrows |-> nrows,
                             persistence |-> persistence],
                   fetched |-> fetch = "",
                   outcome |-> IF out.exc = "" THEN "return" ELSE "raise",
                   exc |-> out.exc, value |-> out.value, warned |-> out.warned,
                   staged |-> out.staged]
        /\ UNCHANGED <<bucket, credFile, ambientOk, s3_client, dynamodb, table, store, lastWrite>>

\* if file.startswith(app_name)
ClearCacheMatches(file, app_name) == StartsWith(file, app_name)

\* The temp directory is taken to be listable and its files removable, so the
\* `except` of clear_cache is not entered.
ClearCache(spark_session) ==
    LET removed == {f \in tmpdir : ClearCacheMatches(f.name, AppName(spark_session))}
    IN  /\ tmpdir' = tmpdir \ removed
        /\ ret' = [op |-> "clear_cache", args |-> [spark_session |-> spark_session],
                   outcome |-> "return", value |-> NoneVal,
                   before |-> tmpdir, removed |-> removed]
        /\ UNCHANGED <<bucket, credFile, ambientOk, s3_client, dynamodb, table, store, lastWrite>>

Session(name, id) == [t |-> "SparkSession", appName |-> name, applicationId |-> id]

Sessions ==
    {Session(<<"j", "b">>, "app-1"), Session(<<"j", "b", "2">>, "app-2"),
     Session(<<"e", " ", "t">>, "app-3")}

\* engine arguments: None, a Spark session, and an object that is neither
Engines == {NoneVal, [t |-> "str"], Session(<<"j", "b">>, "app-1")}

ReadKeys ==
    {<<"d", ".", "c", "s", "v">>,
     <<"d", ".", "C", "S", "V">>,
     <<"d", ".", "p", "a", "r", "q", "u", "e", "t">>,
     <<"d", ".", "t", "x", "t">>,
     <<"c", "s", "v">>,
     <<"d", ".", "c", "s", "v", "/", "b">>}

\* keys asked for that the bucket does not hold
AbsentKeys == {<<"x", ".", "c", "s", "v">>, <<"x", ".", "t", "x", "t">>, NoneStr}

RandomParts == {<<"r">>, <<"q">>}

Persistences == {"DISK_ONLY", "MEMORY_AND_DISK"}

InitRead ==
    /\ InitRest
    /\ bucket = {[Key |-> k, Body |-> [fmt |-> "raw", rows |-> 2]] : k \in ReadKeys}
    /\ s3_client \in {S3Handle, NoneVal}

NextRead ==
    \/ \E filename \in ReadKeys \cup AbsentKeys, engine \in Engines, nrows \in {-1, 0, 1},
          persistence \in Persistences, fail \in BOOLEAN :
          ReadFromS3(filename, engine, nrows, persistence, <<"r">>, fail)
    \/ \E spark_session \in Sessions : ClearCache(spark_session)

SpecRead == InitRead /\ [][NextRead]_vars

\* several sessions staging on one host
InitCache ==
    /\ InitRest
    /\ bucket = {[Key |-> k, Body |-> [fmt |-> "raw", rows |-> 2]] : k \in ReadKeys}
    /\ s3_client = S3Handle

NextCache ==
    \/ \E filename \in {<<"d", ".", "c", "s", "v">>, <<"d", ".", "p", "a", "r", "q", "u", "e", "t">>},
          engine \in Sessions \cup {NoneVal}, rnd \in RandomParts :
          ReadFromS3(filename, engine, -1, "DISK_ONLY", rnd, FALSE)
    \/ \E spark_session \in Sessions : ClearCache(spark_session)

SpecCache == InitCache /\ [][NextCache]_vars

\* C5 (as claimed): a key whose extension (the text after the last '.',
\* case-insensitive) is not csv or parquet is rejected with a typed
\* UnsupportedFormatError, for every engine argument, and no table and no temp
\* file come of it.
C5_RejectsWithTypedError ==
    (ret.op = "read_from_s3" /\ ret.fetched
        /\ Lower(SubSeq(ret.args.filename, LastIndexOf(ret.args.filename, ".") + 1,
                        Len(ret.args.filename))) \notin {Csv, Parquet}) =>
        /\ ret.outcome = "raise" /\ ret.exc = "UnsupportedFormatError"
        /\ ret.staged = {}

\* C5 (amended): for a key whose text after the last '.' (the whole key when
\* it has no '.'), lower-cased, is not csv or parquet, and for every engine
\* argument: read_from_s3 raises nothing of its own; once get_object has
\* answered it issues the warning and returns None, and otherwise the error of
\* the fetch is the outcome; no table is produced and no temp file is staged.
C5_RejectsWithWarningAndNone ==
    (ret.op = "read_from_s3" /\ ret.args.filename # NoneStr
        /\ Lower(SubSeq(ret.args.filename, LastIndexOf(ret.args.filename, ".") + 1,
                        Len(ret.args.filename))) \notin {Csv, Parquet}) =>
        /\ ret.staged = {}
        /\ ret.value = NoneVal
        /\ IF ret.fetched
           THEN ret.outcome = "return" /\ ret.warned
           ELSE ret.outcome = "raise" /\ ret.exc \in {"AttributeError", "ClientError"} /\ ~ret.warned

\* a fetched .txt object read with a Spark session: the warning, None, and the
\* temp directory still holding what an earlier read staged
C5_Witness ==
    /\ ret.op = "read_from_s3" /\ ret.args.filename = <<"d", ".", "t", "x", "t">>
    /\ ret.fetched /\ IsSparkSession(ret.args.engine)
    /\ ret.warned /\ ret.value = NoneVal /\ ret.staged = {}
    /\ tmpdir # {}

\* C10: a .parquet key that get_object answers is staged to a temp file and
\* then decoded for either representation: engine=None gives a local table, a
\* Spark session a distributed table, limited to nrows rows when nrows is set
\* and persisted at the requested level; neither ends in an error.
C10_ParquetDecodesForBothEngines ==
    (ret.op = "read_from_s3" /\ ret.fetched
        /\ FileExtension(ret.args.filename) = Parquet
        /\ (ret.args.engine = NoneVal \/ IsSparkSession(ret.args.engine))) =>
        /\ ret.outcome = "return"
        /\ ret.staged # {}
        /\ ret.args.engine = NoneVal => ret.value.t = "LocalTable"
        /\ IsSparkSession(ret.args.engine) =>
              /\ ret.value.t = "DistributedTable"
              /\ ret.value.persistence = ret.args.persistence
              /\ ret.args.nrows # -1 => ret.value.rows <= ret.args.nrows

\* C9: clear_cache(S) removes every temp file staged by S and none staged by a
\* session whose identity (its appName) differs from S's.
C9_ClearCacheRemovesOnlyOwnFiles ==
    ret.op = "clear_cache" =>
        /\ ret.removed = {f \in ret.before : f.owner.appName = ret.args.spark_session.appName}
        /\ tmpdir = ret.before \ ret.removed

-----------------------------------------------------------------------------
(* The client factories: S3ConnectionMR.get_client, DynamoDBConnection.get_client *)

\* the one credential file path of the runs
CredPath == <<"s", ".", "j">>

Absent == "<absent>"

\* open(client_secret) and json.load(f): the parsed document, or the exception
LoadJson(client_secret) ==
    IF client_secret = NoneStr THEN [exc |-> "TypeError"]
    ELSE IF client_secret # CredPath \/ credFile.state = "missing" THEN [exc |-> "FileNotFoundError"]
    ELSE IF credFile.state = "garbage" THEN [exc |-> "JSONDecodeError"]
    ELSE [exc |-> "", data |-> credFile]

\* data.get(name): None for a missing key; a document that is no object has no .get
DataGet(data, name) == IF data[name] = Absent THEN "None" ELSE data[name]

\* boto3.client / boto3.resource with the two key arguments: explicit
\* credentials when both are given, the default resolution (as with no
\* arguments) when both are None, PartialCredentialsError when one is None
Boto3Handle(service, access, secret) ==
    IF access # "None" /\ secret # "None"
    THEN [exc |-> "", handle |-> [t |-> "client", service |-> service, credentials |-> "explicit"]]
    ELSE IF access # "None" \/ secret # "None"
    THEN [exc |-> "PartialCredentialsError"]
    ELSE IF ambientOk
    THEN [exc |-> "", handle |-> [t |-> "client", service |-> service, credentials |-> "ambient"]]
    ELSE [exc |-> "BotoCoreError"]

\* the body of the try block both factories share: load, get the two fields,
\* build the handle
ClientFromFile(service, client_secret) ==
    LET doc == LoadJson(client_secret)
    IN  IF doc.exc # "" THEN [exc |-> doc.exc]
        ELSE IF doc.data.state # "dict" THEN [exc |-> "AttributeError"]
        ELSE Boto3Handle(service, DataGet(doc.data, "ACCESS_KEY"), DataGet(doc.data, "SECRET_KEY"))

\* S3ConnectionMR.get_client: what it returns and whether it logged
S3GetClientValue(client_secret) ==
    LET got == IF client_secret # NoneStr /\ client_secret # <<>>
               THEN ClientFromFile("s3", client_secret)
               ELSE Boto3Handle("s3", "None", "None")
    IN  IF got.exc = "" THEN [value |-> got.handle, logged |-> FALSE]
        ELSE [value |-> NoneVal, logged |-> TRUE]

\* DynamoDBConnection.get_client
DynamoGetClientValue(client_secret) ==
    LET got == ClientFromFile("dynamodb", client_secret)
    IN  IF got.exc = "" THEN [value |-> got.handle, logged |-> FALSE]
        ELSE [value |-> NoneVal, logged |-> TRUE]

\* S3ConnectionMR.__init__
S3Init(client_secret) ==
    /\ s3_client' = S3GetClientValue(client_secret).value
    /\ ret' = [op |-> "S3ConnectionMR.get_client", args |-> [client_secret |-> client_secret],
               outcome |-> "return", value |-> S3GetClientValue(client_secret).value,
               logged |-> S3GetClientValue(client_secret).logged]
    /\ UNCHANGED <<bucket, tmpdir, credFile, ambientOk, dynamodb, table, store, lastWrite>>

\* DynamoDBConnection.__init__
DynamoInit(client_secret) ==
    /\ dynamodb' = DynamoGetClientValue(client_secret).value
    /\ table' = NoneVal
    /\ ret' = [op |-> "DynamoDBConnection.get_client", args |-> [client_secret |-> client_secret],
               outcome |-> "return", value |-> DynamoGetClientValue(client_secret).value,
               logged |-> DynamoGetClientValue(client_secret).logged]
    /\ UNCHANGED <<bucket, tmpdir, credFile, ambientOk, s3_client, store, lastWrite>>

CredFiles ==
    {[state |-> "missing"], [state |-> "garbage"], [state |-> "list"]}
    \cup {[state |-> "dict", ACCESS_KEY |-> a, SECRET_KEY |-> s] :
             a \in {Absent, "AK1", "AK2"}, s \in {Absent, "SK1", "SK2"}}

InitClient ==
    /\ bucket = {} /\ tmpdir = {}
    /\ credFile \in CredFiles
    /\ ambientOk \in BOOLEAN
    /\ s3_client = NoneVal /\ dynamodb = NoneVal /\ table = NoneVal
    /\ store = <<>> /\ lastWrite = <<>>
    /\ ret = NoCall

NextClient ==
    \/ \E client_secret \in {CredPath, <<>>, NoneStr} : S3Init(client_secret)
    \/ \E client_secret \in {CredPath, <<>>, NoneStr} : DynamoInit(client_secret)

SpecClient == InitClient /\ [][NextClient]_vars

\* C8: given a credential file path, a factory returns no handle whenever the
\* file cannot be parsed or the access key field or the secret key field is
\* absent; the failure is logged, never raised; a handle is returned only when
\* both fields are present.
C8_NoHandleWithoutBothKeys ==
    (ret.op \in {"S3ConnectionMR.get_client", "DynamoDBConnection.get_client"}
        /\ ret.args.client_secret = CredPath) =>
        /\ ret.outcome = "return"
        /\ (credFile.state # "dict" \/ credFile.ACCESS_KEY = Absent \/ credFile.SECRET_KEY = Absent)
              => (ret.value = NoneVal /\ ret.logged)
        /\ ret.value # NoneVal
              => (credFile.state = "dict" /\ credFile.ACCESS_KEY # Absent /\ credFile.SECRET_KEY # Absent)

-----------------------------------------------------------------------------
(* DynamoDBConnection: connect_table and the item operations *)

\* the resource boto3.resource('dynamodb', ...) returns
DynamoHandle == [t |-> "client", service |-> "dynamodb", credentials |-> "explicit"]

\* the tables the service holds; connect_table checks no name
ExistingTables == {"users"}

Keys == {"u1", "u2"}

Names == {"Ana", "Bo"}

Items == {[id |-> k, name |-> n] : k \in Keys, n \in Names}

NoItem == [t |-> "NoItem"]

EmptyList == [t |-> "list", items |-> <<>>]

LogError(msg) == [level |-> "ERROR", msg |-> msg]

LogWarning(msg) == [level |-> "WARNING", msg |-> msg]

LogInfo(msg) == [level |-> "INFO", msg |-> msg]

\* `if not self.table`
NotConnected == table = NoneVal

\* the service rejects the request: botocore raises ClientError
ClientError(fail) == fail \/ table.name \notin ExistingTables

\* the record of one call of an item operation
DynRet(op, args, path, value, log, requests) ==
    [op |-> op, args |-> args, outcome |-> "return", path |-> path, value |-> value,
     log |-> log, requests |-> requests,
     before |-> [dynamodb |-> dynamodb, table |-> table]]

\* what each operation returns under `if not self.table`
NotConnectedValueAlwaysNone(op) == NoneVal

NotConnectedValue(op) == IF op \in {"scan_table", "query_table"} THEN EmptyList ELSE NoneVal

NotConnectedCall(op, args) ==
    /\ ret' = DynRet(op, args, "not_connected", NotConnectedValue(op),
                     LogError("No table connected."), <<>>)
    /\ UNCHANGED <<store, lastWrite>>

ConnectTable(table_name) ==
    /\ table' = IF dynamodb # NoneVal THEN [t |-> "Table", name |-> table_name] ELSE table
    /\ ret' = [op |-> "connect_table", args |-> [table_name |-> table_name],
               outcome |-> "return", value |-> NoneVal,
               log |-> IF dynamodb # NoneVal THEN LogInfo("Connected to table")
                       ELSE LogError("DynamoDB client is not initialized.")]
    /\ UNCHANGED <<bucket, tmpdir, credFile, ambientOk, s3_client, dynamodb, store, lastWrite>>

PutItem(item, fail) ==
    LET request == [api |-> "PutItem", table |-> table.name, Item |-> item]
    IN  /\ IF NotConnected THEN NotConnectedCall("put_item", [item |-> item])
           ELSE IF ClientError(fail)
           THEN /\ ret' = DynRet("put_item", [item |-> item], "client_error", NoneVal,
                                 LogError("Error putting item"), <<request>>)
                /\ UNCHANGED <<store, lastWrite>>
           ELSE /\ store' = [store EXCEPT ![request.Item.id] = request.Item]
                /\ lastWrite' = [lastWrite EXCEPT ![item.id] = [op |-> "put", item |-> item]]
                /\ ret' = DynRet("put_item", [item |-> item], "ok", [t |-> "response"],
                                 LogInfo("Item successfully put"), <<request>>)
        /\ UNCHANGED <<bucket, tmpdir, credFile, ambientOk, s3_client, dynamodb, table>>

\* if 'Item' in response: return response['Item'] else: return None
GetItemValueNeverFound(response) == NoneVal

GetItemValueUnchecked(response) == [t |-> "item", item |-> response.Item]

GetItemValue(response) ==
    IF response.Item # NoItem THEN [t |-> "item", item |-> response.Item] ELSE NoneVal

GetItem(key, fail) ==
    LET request == [api |-> "GetItem", table |-> table.name, Key |-> key]
        response == [Item |-> store[request.Key.id]]
    IN  /\ IF NotConnected THEN NotConnectedCall("get_item", [key |-> key])
           ELSE /\ ret' = IF ClientError(fail)
                          THEN DynRet("get_item", [key |-> key], "client_error", NoneVal,
                                      LogError("Error retrieving item"), <<request>>)
                          ELSE DynRet("get_item", [key |-> key],
                                      IF response.Item # NoItem THEN "found" ELSE "not_found",
                                      GetItemValue(response),
                                      IF response.Item # NoItem THEN LogInfo("Item retrieved")
                                      ELSE LogWarning("Item not found"),
                                      <<request>>)
                /\ UNCHANGED <<store, lastWrite>>
        /\ UNCHANGED <<bucket, tmpdir, credFile, ambientOk, s3_client, dynamodb, table>>

\* The update expressions of the runs: "SET name = :n", which the service
\* applies to the item under the key (creating it when absent), and one it
\* rejects.  ReturnValues="UPDATED_NEW": the attributes the update set.
UpdateItem(key, update_expression, expression_values, fail) ==
    LET args == [key |-> key, update_expression |-> update_expression,
                 expression_values |-> expression_values]
        request == [api |-> "UpdateItem", table |-> table.name, Key |-> key,
                    UpdateExpression |-> update_expression,
                    ExpressionAttributeValues |-> expression_values]
        updated == [id |-> key.id, name |-> expression_values.n]
    IN  /\ IF NotConnected THEN NotConnectedCall("update_item", args)
           ELSE IF ClientError(fail) \/ update_expression # "SET name = :n"
           THEN /\ ret' = DynRet("update_item", args, "client_error", NoneVal,
                                 LogError("Error updating item"), <<request>>)
                /\ UNCHANGED <<store, lastWrite>>
           ELSE /\ store' = [store EXCEPT ![key.id] = updated]
                /\ lastWrite' = [lastWrite EXCEPT ![key.id] = [op |-> "update", item |-> updated]]
                /\ ret' = DynRet("update_item", args, "ok",
                                 [t |-> "attributes", name |-> expression_values.n],
                                 LogInfo("Item updated"), <<request>>)
        /\ UNCHANGED <<bucket, tmpdir, credFile, ambientOk, s3_client, dynamodb, table>>

DeleteItem(key, fail) ==
    LET request == [api |-> "DeleteItem", table |-> table.name, Key |-> key]
    IN  /\ IF NotConnected THEN NotConnectedCall("delete_item", [key |-> key])
           ELSE IF ClientError(fail)
           THEN /\ ret' = DynRet("delete_item", [key |-> key], "client_error", NoneVal,
                                 LogError("Error deleting item"), <<request>>)
                /\ UNCHANGED <<store, lastWrite>>
           ELSE /\ store' = [store EXCEPT ![request.Key.id] = NoItem]
                /\ lastWrite' = [lastWrite EXCEPT ![key.id] = [op |-> "delete", item |-> NoItem]]
                /\ ret' = DynRet("delete_item", [key |-> key], "ok", [t |-> "response"],
                                 LogInfo("Item successfully deleted"), <<request>>)
        /\ UNCHANGED <<bucket, tmpdir, credFile, ambientOk, s3_client, dynamodb, table>>

\* the items the table holds, in an order of the service's
StoredItems == {store[k] : k \in {j \in Keys : store[j] # NoItem}}

\* Scan: Limit bounds the items read, the filter applies to those
ScanResponse(order, params) ==
    LET read == IF params.Limit # -1 THEN SubSeq(order, 1, Min(Len(order), params.Limit)) ELSE order
    IN  IF params.FilterExpression = "None" THEN read
        ELSE SelectSeq(read, LAMBDA it : it.name = params.ExpressionAttributeValues.n)

\* limit = -1 stands for limit=None; `if limit:` drops a limit of 0 as well
ScanTable(filter_expression, expression_values, limit, fail) ==
    LET args == [filter_expression |-> filter_expression,
                 expression_values |-> expression_values, limit |-> limit]
        scan_params == [FilterExpression |-> filter_expression,
                        ExpressionAttributeValues |-> expression_values,
                        Limit |-> IF limit # -1 /\ limit # 0 THEN limit ELSE -1]
        request == [api |-> "Scan", table |-> table.name, params |-> scan_params]
    IN  /\ IF NotConnected THEN NotConnectedCall("scan_table", args)
           ELSE /\ \E order \in Orderings(StoredItems) :
                      ret' = IF ClientError(fail)
                             THEN DynRet("scan_table", args, "client_error", EmptyList,
                                         LogError("Error scanning table"), <<request>>)
                             ELSE DynRet("scan_table", args, "ok",
                                         [t |-> "list", items |-> ScanResponse(order, scan_params)],
                                         LogInfo("Scanned items"), <<request>>)
                /\ UNCHANGED <<store, lastWrite>>
        /\ UNCHANGED <<bucket, tmpdir, credFile, ambientOk, s3_client, dynamodb, table>>

\* Key(partition_key).eq(partition_value): the table's hash key is "id"; a
\* condition on another attribute is rejected by the service
QueryTable(partition_key, partition_value, fail) ==
    LET args == [partition_key |-> partition_key, partition_value |-> partition_value]
        request == [api |-> "Query", table |-> table.name,
                    KeyConditionExpression |-> [attr |-> partition_key, eq |-> partition_value]]
        items == IF partition_value \in Keys /\ store[partition_value] # NoItem
                 THEN <<store[partition_value]>> ELSE <<>>
    IN  /\ IF NotConnected THEN NotConnectedCall("query_table", args)
           ELSE /\ ret' = IF ClientError(fail) \/ partition_key # "id"
                          THEN DynRet("query_table", args, "client_error", EmptyList,
                                      LogError("Error querying table"), <<request>>)
                          ELSE DynRet("query_table", args, "ok", [t |-> "list", items |-> items],
                                      LogInfo("Queried items"), <<request>>)
                /\ UNCHANGED <<store, lastWrite>>
        /\ UNCHANGED <<bucket, tmpdir, credFile, ambientOk, s3_client, dynamodb, table>>

\* after DynamoDBConnection(client_secret): the resource or None, no table
InitDynamo ==
    /\ bucket = {} /\ tmpdir = {}
    /\ credFile = [state |-> "missing"]
    /\ ambientOk = TRUE
    /\ s3_client = NoneVal
    /\ dynamodb \in {DynamoHandle, NoneVal}
    /\ table = NoneVal
    /\ store = [k \in Keys |-> NoItem]
    /\ lastWrite = [k \in Keys |-> [op |-> "none", item |-> NoItem]]
    /\ ret = NoCall

NextDynamo ==
    \/ \E table_name \in ExistingTables \cup {"ghost"} : ConnectTable(table_name)
    \/ \E item \in Items, fail \in BOOLEAN : PutItem(item, fail)
    \/ \E k \in Keys, fail \in BOOLEAN : GetItem([id |-> k], fail)
    \/ \E k \in Keys, e \in {"SET name = :n", "bogus"}, n \in Names, fail \in BOOLEAN :
          UpdateItem([id |-> k], e, [n |-> n], fail)
    \/ \E k \in Keys, fail \in BOOLEAN : DeleteItem([id |-> k], fail)
    \/ \E f \in {"None", "name = :n"}, n \in Names, limit \in {-1, 0, 1}, fail \in BOOLEAN :
          ScanTable(f, [n |-> n], limit, fail)
    \/ \E pk \in {"id", "name"}, pv \in Keys \cup Names, fail \in BOOLEAN : QueryTable(pk, pv, fail)

SpecDynamo == InitDynamo /\ [][NextDynamo]_vars

ItemOps == {"put_item", "get_item", "update_item", "delete_item", "scan_table", "query_table"}

\* C1 (as claimed): each of the six item operations, called while no table is
\* bound, returns one and the same typed not-connected outcome
\* (NotConnectedError), raises nothing, sends nothing to the service and
\* leaves dynamodb and table as they were.
C1_NotConnectedTypedOutcome ==
    (ret.op \in ItemOps /\ ret.before.table = NoneVal) =>
        /\ ret.outcome = "return"
        /\ ret.value = [t |-> "NotConnectedError"]
        /\ ret.requests = <<>>
        /\ table = NoneVal /\ dynamodb = ret.before.dynamodb

\* C1 (amended): each of the six item operations, called while no table is
\* bound, logs the error "No table connected." and returns the null/empty
\* result of its kind (None from put_item, get_item, update_item and
\* delete_item, the empty list from scan_table and query_table); it raises
\* nothing, sends nothing to the service and leaves dynamodb and table as
\* they were.
C1_NotConnectedNullOrEmpty ==
    (ret.op \in ItemOps /\ ret.before.table = NoneVal) =>
        /\ ret.outcome = "return"
        /\ ret.log = [level |-> "ERROR", msg |-> "No table connected."]
        /\ ret.op \in {"put_item", "get_item", "update_item", "delete_item"} => ret.value = [t |-> "None"]
        /\ ret.op \in {"scan_table", "query_table"} => ret.value = [t |-> "list", items |-> <<>>]
        /\ ret.requests = <<>>
        /\ table = NoneVal /\ dynamodb = ret.before.dynamodb

\* scan_table called on a connection whose resource was built but whose table
\* was never bound
C1_Witness ==
    /\ ret.op = "scan_table" /\ ret.before.table = NoneVal
    /\ dynamodb # NoneVal /\ table = NoneVal
    /\ ret.value = EmptyList

\* C2: on a connected table, get_item(k) that the service answers returns the
\* item of the last acknowledged put_item under k when no delete_item(k)
\* followed it, and not-found (None) when k was never written or the last
\* acknowledged write under k was delete_item(k).
C2_GetReturnsLastPut ==
    (ret.op = "get_item" /\ ret.path \in {"found", "not_found"}
        /\ lastWrite[ret.args.key.id].op \in {"none", "put", "delete"}) =>
        ret.value = IF lastWrite[ret.args.key.id].op = "put"
                    THEN [t |-> "item", item |-> lastWrite[ret.args.key.id].item]
                    ELSE [t |-> "None"]

\* put {id:u1,name:Ana} then get {id:u1} returns the item, with u2 deleted
\* after a put
C2_Witness ==
    /\ ret.op = "get_item" /\ ret.args.key = [id |-> "u1"]
    /\ ret.value = [t |-> "item", item |-> [id |-> "u1", name |-> "Ana"]]
    /\ lastWrite["u1"].op = "put" /\ lastWrite["u2"].op = "delete"

\* C3 (as claimed): what get_item returns for a key never written differs
\* from what it returns on a service error and from what it returns when no
\* table is connected, and it is no exception.
C3_NotFoundDistinguishable ==
    (ret.op = "get_item" /\ ret.path \in {"client_error", "not_connected"}) =>
        /\ ret.outcome = "return"
        /\ ret.value # GetItemValue([Item |-> NoItem])

\* C3 (amended): get_item on a key never written returns None without raising
\* and logs a warning; a service error and a missing table connection return
\* the same None, and differ from not-found only in the log record (an error
\* instead of the warning).
C3_NotFoundDiffersOnlyInLog ==
    ret.op = "get_item" =>
        /\ ret.outcome = "return"
        /\ (ret.path \in {"found", "not_found"} /\ lastWrite[ret.args.key.id].op = "none") =>
              (ret.value = [t |-> "None"] /\ ret.log = [level |-> "WARNING", msg |-> "Item not found"])
        /\ ret.path \in {"client_error", "not_connected"} =>
              (ret.value = [t |-> "None"] /\ ret.log.level = "ERROR")

\* get_item of a never-written key on a connected table that holds another item
C3_Witness ==
    /\ ret.op = "get_item" /\ ret.path = "not_found"
    /\ lastWrite[ret.args.key.id].op = "none"
    /\ table # NoneVal /\ \E k \in Keys : store[k] # NoItem

====
